---- MODULE Spec2Model ----
(***************************************************************************)
(* BulkMessageService (server/src/core/services/messaging): validation of  *)
(* recipient groups, concurrent group resolution with de-duplication by    *)
(* _id, batched per-recipient rendering and delivery, and the aggregate    *)
(* BulkMessageReport.  Every await of the source is a suspension point:    *)
(* the code before it and the continuation after it are separate atomic    *)
(* steps of the single-threaded cooperative scheduler.                     *)
(***************************************************************************)
EXTENDS Naturals, Sequences, FiniteSets, Bags, TLC

(***************************************************************************)
(* Bounds of the exploration.                                              *)
(*   MaxWork   - budget of requests: send(groups, t) costs 1 + Len(groups),*)
(*               previewMessage(t) costs 1.                                *)
(*   BatchSize - number of handler invocations BatchJobQueue keeps in      *)
(*               flight at once.                                           *)
(***************************************************************************)
MaxWork == 4

BatchSize == 2

(***************************************************************************)
(* Data: users, recipient groups, templates.                               *)
(***************************************************************************)
IUser(id, name, team) == [_id |-> id, name |-> name, team |-> team]

User1 == IUser("1", "A", "x")

User2 == IUser("2", "B", "")

Users == {User1, User2}

\* The synthetic user previewMessage renders against.
getPreviewUser == IUser("preview", "Jane", "x")

\* Group names the resolver declares resolvable.
canResolve(group) == group \in {"all", "team:a"}

GroupNames == {"all", "team:a", "bogus", "nope"}

\* What a successful recipientResolver.resolve(group) yields.
resolve(group) ==
    CASE group = "all"    -> <<User1, User2>>
      [] group = "team:a" -> <<User2, User2>>
      [] OTHER            -> <<>>

\* A template is a sequence of tokens: literal text or a {{placeholder}}.
Lit(s) == [kind |-> "lit", text |-> s]

Ph(s) == [kind |-> "ph", text |-> s]

TplName == <<Lit("Hi "), Ph("name")>>

TplTeam == <<Lit("Team "), Ph("team")>>

Templates == {TplName, TplTeam}

\* contextFactory.createContextFromUser: the fields a template may use.
createContextFromUser(user) == [name |-> user.name, team |-> user.team]

TemplateError == [ok |-> FALSE, text |-> "Unresolved placeholder"]

\* templateResolver.resolve: substitute each placeholder by the context's
\* field; a placeholder without a value in the context is an error.
RECURSIVE Expand(_, _)
Expand(context, template) ==
    IF template = <<>> THEN [ok |-> TRUE, text |-> ""]
    ELSE LET tok  == Head(template)
             rest == Expand(context, Tail(template))
             val  == IF tok.kind = "lit" THEN tok.text
                     ELSE IF tok.text \in DOMAIN context THEN context[tok.text]
                     ELSE ""
         IN  IF tok.kind = "ph" /\ val = "" THEN TemplateError
             ELSE IF ~rest.ok THEN rest
             ELSE [ok |-> TRUE, text |-> val \o rest.text]

templateResolve(context, template) == Expand(context, template)

\* the message rendered for the preview user instead of the recipient
createMessageForUser_preview(user, template) ==
    templateResolve(createContextFromUser(getPreviewUser), template)

\* createMessageForUser, once the context factory has answered.
createMessageForUser(user, template) ==
    templateResolve(createContextFromUser(user), template)

(***************************************************************************)
(* Sequence helpers.                                                       *)
(***************************************************************************)
Range(s) == {s[i] : i \in 1..Len(s)}

SeqsUpTo(S, n) == UNION {[1..k -> S] : k \in 0..n}

\* g => 'g'
Quote(g) == "'" \o g \o "'"

\* Array.prototype.join(', ') of the quoted names
RECURSIVE JoinQuoted(_)
JoinQuoted(gs) ==
    IF gs = <<>> THEN ""
    ELSE IF Len(gs) = 1 THEN Quote(gs[1])
    ELSE Quote(gs[1]) \o ", " \o JoinQuoted(Tail(gs))

(***************************************************************************)
(* State.                                                                  *)
(*   svc     - the BulkMessageService instance (or the constructor's error)*)
(*   calls   - one record per send call: its position, its locals          *)
(*             (report, allRecipients, recipientIds, the group tasks, the  *)
(*             queue's jobs) and what it asked of its collaborators        *)
(*   preview - the previewMessage call in progress and what previews       *)
(*             returned so far                                             *)
(*   work    - what is left of MaxWork                                     *)
(***************************************************************************)
VARIABLES svc, calls, preview, work

vars == <<svc, calls, preview, work>>

Calls == 1..MaxWork

NoReport == [none |-> TRUE]

\* const report = { errors: [], numFailed: 0, numRecipients: 0, recipients: [] }
NewReport == [errors |-> <<>>, numFailed |-> 0, numRecipients |-> 0, recipients |-> <<>>]

IdleCall ==
    [pc |-> "idle", recipientGroups |-> <<>>, messageTemplate |-> <<>>,
     error |-> "", report |-> NoReport, returned |-> NoReport,
     tasks |-> <<>>, allRecipients |-> <<>>, recipientIds |-> {},
     queue |-> <<>>, jobs |-> <<>>,
     resolveLog |-> <<>>, contextLog |-> EmptyBag, renderLog |-> EmptyBag,
     transportLog |-> EmptyBag]

IdlePreview ==
    [pc |-> "idle", messageTemplate |-> <<>>, results |-> {},
     resolveLog |-> 0, contextLog |-> 0, renderLog |-> 0, transportLog |-> 0]

Init ==
    /\ svc = [state |-> "unconstructed", error |-> "",
              recipientResolver |-> FALSE, transport |-> FALSE]
    /\ calls = [c \in Calls |-> IdleCall]
    /\ preview = IdlePreview
    /\ work = MaxWork

(***************************************************************************)
(* constructor(args)                                                       *)
(***************************************************************************)
\* args: which optional collaborators the caller supplied
BulkMessageServiceArgs ==
    [recipientResolver : BOOLEAN, users : BOOLEAN,
     transport : BOOLEAN, smsService : BOOLEAN]

\* the test with || for &&
MissingResolver_either(args) == ~args.recipientResolver \/ ~args.users

\* if (!args.recipientResolver && !args.users)
MissingResolver(args) == ~args.recipientResolver /\ ~args.users

\* if (!args.transport && !args.smsService)
MissingTransport(args) == ~args.transport /\ ~args.smsService

Construct(args) ==
    /\ svc.state = "unconstructed"
    /\ svc' =
         IF MissingResolver(args)
         THEN [state |-> "configError",
               error |-> "Bulk message args must provide either recipientsResolver or users",
               recipientResolver |-> FALSE, transport |-> FALSE]
         ELSE IF MissingTransport(args)
         THEN [state |-> "configError",
               error |-> "Bulk message args must provide either transport or smsProvider",
               recipientResolver |-> FALSE, transport |-> FALSE]
         ELSE [state |-> "constructed", error |-> "",
               recipientResolver |-> args.recipientResolver \/ args.users,
               transport |-> args.transport \/ args.smsService]
    /\ UNCHANGED <<calls, preview, work>>

(***************************************************************************)
(* send(recipientGroups, messageTemplate): validation, the report, and the *)
(* start of one addRecipientsFromGroup task per group (each runs up to its *)
(* await of recipientResolver.resolve).                                    *)
(***************************************************************************)
\* the filter with its test inverted
invalidGroups_inverted(recipientGroups) ==
    SelectSeq(recipientGroups, LAMBDA group : canResolve(group))

\* a validation that also refuses an empty list
invalidGroups_refuseEmpty(recipientGroups) ==
    IF recipientGroups = <<>> THEN <<"">>
    ELSE SelectSeq(recipientGroups, LAMBDA group : ~canResolve(group))

\* recipientGroups.filter(group => !this.recipientResolver.canResolve(group))
invalidGroups(recipientGroups) ==
    SelectSeq(recipientGroups, LAMBDA group : ~canResolve(group))

\* `Invalid recipients: ${invalidGroups.map(g => `'${g}'`).join(', ')}`
InvalidRecipientsMessage(groups) == "Invalid recipients: " \o JoinQuoted(groups)

\* recipientGroups.map(group => this.addRecipientsFromGroup(...)): the
\* resolver is asked for every group, in the order given
StartGroupTasks(call, recipientGroups) ==
    [call EXCEPT !.tasks = [i \in 1..Len(recipientGroups) |-> "pending"],
                 !.resolveLog = recipientGroups]

NextCall(c) ==
    /\ calls[c].pc = "idle"
    /\ IF c = 1 THEN TRUE ELSE calls[c - 1].pc # "idle"

send(c, recipientGroups, messageTemplate) ==
    /\ svc.state = "constructed"
    /\ NextCall(c)
    /\ work >= 1 + Len(recipientGroups)
    /\ work' = work - (1 + Len(recipientGroups))
    /\ LET call == [calls[c] EXCEPT !.recipientGroups = recipientGroups,
                                    !.messageTemplate = messageTemplate]
           bad  == invalidGroups(recipientGroups)
       IN  calls' = [calls EXCEPT ![c] =
             IF Len(bad) > 0
             THEN [call EXCEPT !.pc = "threw",
                               !.error = InvalidRecipientsMessage(bad)]
             ELSE StartGroupTasks([call EXCEPT !.pc = "resolving",
                                               !.report = NewReport],
                                  recipientGroups)]
    /\ UNCHANGED <<svc, preview>>

(***************************************************************************)
(* The report's two mutations.                                             *)
(***************************************************************************)
Null == "null"

\* the push without the increment
pushError_uncounted(report, entry) == [report EXCEPT !.errors = Append(@, entry)]

\* report.errors.push({...}); report.numFailed += 1
pushError(report, entry) ==
    [report EXCEPT !.errors = Append(@, entry), !.numFailed = @ + 1]

\* the push without the increment
pushRecipient_uncounted(report, recipient) ==
    [report EXCEPT !.recipients = Append(@, [user |-> recipient._id,
                                             name |-> recipient.name])]

\* unshift for push
pushRecipient_front(report, recipient) ==
    [report EXCEPT !.numRecipients = @ + 1,
                   !.recipients = <<[user |-> recipient._id,
                                     name |-> recipient.name]>> \o @]

\* report.numRecipients += 1; report.recipients.push({user, name})
pushRecipient(report, recipient) ==
    [report EXCEPT !.numRecipients = @ + 1,
                   !.recipients = Append(@, [user |-> recipient._id,
                                             name |-> recipient.name])]

GroupError(group, message) ==
    [recipientGroup |-> group, user |-> Null, name |-> Null, message |-> message]

RecipientError(recipient, message) ==
    [message |-> message, user |-> recipient._id, name |-> recipient.name]

(***************************************************************************)
(* addRecipientsFromGroup, after its await: the resolver answered the      *)
(* group's task with the users (ok) or with an error.  A task's state is   *)
(* the state of its recipientResolver.resolve promise.                     *)
(***************************************************************************)
\* a look-up that never finds the id
hasRecipient_never(recipientIds, r) == FALSE

\* one id set for the instance instead of one per call
hasRecipient_shared(recipientIds, r) ==
    r._id \in recipientIds \cup UNION {calls[d].recipientIds : d \in Calls}

\* recipientIds.has(r._id)
hasRecipient(recipientIds, r) == r._id \in recipientIds

\* a duplicate takes the place of the earlier entry: the user moves to the end
RECURSIVE addRecipients_lastSeen(_, _)
addRecipients_lastSeen(call, recipients) ==
    IF recipients = <<>> THEN call
    ELSE LET r == Head(recipients)
         IN  addRecipients_lastSeen(
               [call EXCEPT !.allRecipients =
                              Append(SelectSeq(@, LAMBDA u : u._id # r._id), r),
                            !.recipientIds = @ \cup {r._id}],
               Tail(recipients))

\* recipients.forEach(r => { if (!recipientIds.has(r._id)) { push; add } })
RECURSIVE addRecipients(_, _)
addRecipients(call, recipients) ==
    IF recipients = <<>> THEN call
    ELSE LET r == Head(recipients)
         IN  addRecipients(
               IF hasRecipient(call.recipientIds, r) THEN call
               ELSE [call EXCEPT !.allRecipients = Append(@, r),
                                 !.recipientIds = @ \cup {r._id}],
               Tail(recipients))

\* the task without its try/catch: the rejection fails Promise.all and send
addRecipientsFromGroup_uncaught(c, i, ok) ==
    /\ i \in DOMAIN calls[c].tasks
    /\ calls[c].tasks[i] = "pending"
    /\ LET call == [calls[c] EXCEPT !.tasks[i] = IF ok THEN "fulfilled" ELSE "rejected"]
       IN  calls' = [calls EXCEPT ![c] =
             IF ok THEN call
             ELSE [call EXCEPT !.pc = "threw", !.error = "resolve failed"]]
    /\ UNCHANGED <<svc, preview, work>>

addRecipientsFromGroup(c, i, ok) ==
    /\ i \in DOMAIN calls[c].tasks
    /\ calls[c].tasks[i] = "pending"
    /\ LET call  == [calls[c] EXCEPT !.tasks[i] = IF ok THEN "fulfilled" ELSE "rejected"]
           group == call.recipientGroups[i]
       IN  calls' = [calls EXCEPT ![c] =
             IF ok THEN addRecipients(call, resolve(group))
             ELSE [call EXCEPT !.report =
                     pushError(@, GroupError(group, "resolve failed"))]]
    /\ UNCHANGED <<svc, preview, work>>

(***************************************************************************)
(* getRecipients resumes once Promise.all(tasks) is fulfilled, and         *)
(* sendToRecipients pushes every recipient on a new BatchJobQueue, signals *)
(* the end of the input and runs the queue.                                *)
(***************************************************************************)
\* Promise.race for Promise.all
allSettled_any(tasks) == tasks = <<>> \/ \E i \in DOMAIN tasks : tasks[i] # "pending"

\* a rejected resolution is never awaited to its end
allSettled_fulfilled(tasks) == \A i \in DOMAIN tasks : tasks[i] = "fulfilled"

\* await Promise.all(tasks)
allSettled(tasks) == \A i \in DOMAIN tasks : tasks[i] # "pending"

sendToRecipients(c) ==
    /\ calls[c].pc = "resolving"
    /\ allSettled(calls[c].tasks)
    /\ calls' = [calls EXCEPT ![c].pc = "sending",
                              ![c].queue = calls[c].allRecipients,
                              ![c].jobs = [i \in 1..Len(calls[c].allRecipients) |-> "queued"]]
    /\ UNCHANGED <<svc, preview, work>>

(***************************************************************************)
(* BatchJobQueue.run: the handler is invoked for the pushed items in the   *)
(* order pushed, at most BatchSize of them in flight; run is over when     *)
(* every handler has settled.  A job's state is where its sendToRecipient  *)
(* stands: queued, awaiting the context, the rendering or the transport,   *)
(* sent (the try block completed) or failed (the catch block ran).         *)
(***************************************************************************)
InFlight(jobs) == {i \in DOMAIN jobs : jobs[i] \in {"context", "render", "transport"}}

Queued(jobs) == {i \in DOMAIN jobs : jobs[i] = "queued"}

\* the next item the queue hands to its handler
NextJob(jobs) == CHOOSE i \in Queued(jobs) : \A j \in Queued(jobs) : i <= j

\* await queue.run()
runDone(jobs) == \A i \in DOMAIN jobs : jobs[i] \in {"sent", "failed"}

\* a queue that hands out an item only when no handler is in flight
startJob_serial(c) ==
    /\ calls[c].pc = "sending"
    /\ Queued(calls[c].jobs) # {}
    /\ InFlight(calls[c].jobs) = {}
    /\ LET i == NextJob(calls[c].jobs)
       IN  calls' = [calls EXCEPT ![c].jobs[i] = "context",
                                  ![c].contextLog = @ (+) SetToBag({calls[c].queue[i]._id})]
    /\ UNCHANGED <<svc, preview, work>>

\* sendToRecipient up to its first await: createMessageForUser calls
\* contextFactory.createContextFromUser(user)
startJob(c) ==
    /\ calls[c].pc = "sending"
    /\ Queued(calls[c].jobs) # {}
    /\ Cardinality(InFlight(calls[c].jobs)) < BatchSize
    /\ LET i == NextJob(calls[c].jobs)
       IN  calls' = [calls EXCEPT ![c].jobs[i] = "context",
                                  ![c].contextLog = @ (+) SetToBag({calls[c].queue[i]._id})]
    /\ UNCHANGED <<svc, preview, work>>

\* without the catch block the rejection reaches the queue, which gives up
\* on the items it has not finished
sendFailed_uncaught(call, i, message) ==
    [call EXCEPT !.jobs = [j \in DOMAIN call.jobs |->
                             IF j = i \/ call.jobs[j] = "queued" THEN "failed"
                             ELSE call.jobs[j]]]

\* the catch block of sendToRecipient
sendFailed(call, i, message) ==
    [call EXCEPT !.jobs[i] = "failed",
                 !.report = pushError(@, RecipientError(call.queue[i], message))]

\* the context factory answered: on success templateResolver.resolve is called
contextSettled(c, i, ok) ==
    /\ i \in DOMAIN calls[c].jobs
    /\ calls[c].jobs[i] = "context"
    /\ calls' = [calls EXCEPT ![c] =
         IF ok THEN [@ EXCEPT !.jobs[i] = "render",
                              !.renderLog = @ (+) SetToBag({calls[c].queue[i]._id})]
         ELSE sendFailed(@, i, "context failed")]
    /\ UNCHANGED <<svc, preview, work>>

\* the rendering's failure is not noticed: its text goes to the transport
renderSettled_unchecked(c, i) ==
    /\ i \in DOMAIN calls[c].jobs
    /\ calls[c].jobs[i] = "render"
    /\ LET recipient == calls[c].queue[i]
           message   == createMessageForUser(recipient, calls[c].messageTemplate)
       IN  calls' = [calls EXCEPT ![c] =
             [@ EXCEPT !.jobs[i] = "transport",
                       !.transportLog = @ (+) SetToBag({[to |-> recipient._id,
                                                        message |-> message.text]})]]
    /\ UNCHANGED <<svc, preview, work>>

\* the template resolver answered: on success transport.sendMessage is called
renderSettled(c, i) ==
    /\ i \in DOMAIN calls[c].jobs
    /\ calls[c].jobs[i] = "render"
    /\ LET recipient == calls[c].queue[i]
           message   == createMessageForUser(recipient, calls[c].messageTemplate)
       IN  calls' = [calls EXCEPT ![c] =
             IF message.ok
             THEN [@ EXCEPT !.jobs[i] = "transport",
                            !.transportLog = @ (+) SetToBag({[to |-> recipient._id,
                                                             message |-> message.text]})]
             ELSE sendFailed(@, i, message.text)]
    /\ UNCHANGED <<svc, preview, work>>

\* the transport's answer without the try/catch around it: the rejection
\* leaves sendToRecipient, the queue and send
transportSettled_uncaught(c, i, ok) ==
    /\ i \in DOMAIN calls[c].jobs
    /\ calls[c].jobs[i] = "transport"
    /\ calls' = [calls EXCEPT ![c] =
         IF ok THEN [@ EXCEPT !.jobs[i] = "sent",
                              !.report = pushRecipient(@, calls[c].queue[i])]
         ELSE [@ EXCEPT !.jobs[i] = "failed", !.pc = "threw",
                        !.error = "transport failed"]]
    /\ UNCHANGED <<svc, preview, work>>

\* the transport answered
transportSettled(c, i, ok) ==
    /\ i \in DOMAIN calls[c].jobs
    /\ calls[c].jobs[i] = "transport"
    /\ calls' = [calls EXCEPT ![c] =
         IF ok THEN [@ EXCEPT !.jobs[i] = "sent",
                              !.report = pushRecipient(@, calls[c].queue[i])]
         ELSE sendFailed(@, i, "transport failed")]
    /\ UNCHANGED <<svc, preview, work>>

\* return report
sendReturn(c) ==
    /\ calls[c].pc = "sending"
    /\ runDone(calls[c].jobs)
    /\ calls' = [calls EXCEPT ![c].pc = "returned",
                              ![c].returned = calls[c].report]
    /\ UNCHANGED <<svc, preview, work>>

(***************************************************************************)
(* previewMessage(messageTemplate)                                         *)
(***************************************************************************)
previewMessage(messageTemplate) ==
    /\ svc.state = "constructed"
    /\ preview.pc = "idle"
    /\ work >= 1
    /\ work' = work - 1
    /\ preview' = [preview EXCEPT !.pc = "context",
                                  !.messageTemplate = messageTemplate,
                                  !.contextLog = @ + 1]
    /\ UNCHANGED <<svc, calls>>

PreviewResult(messageTemplate, ok, text) ==
    [messageTemplate |-> messageTemplate, ok |-> ok, text |-> text]

previewContextSettled(ok) ==
    /\ preview.pc = "context"
    /\ preview' =
         IF ok THEN [preview EXCEPT !.pc = "render", !.renderLog = @ + 1]
         ELSE [preview EXCEPT !.pc = "idle",
                 !.results = @ \cup {PreviewResult(preview.messageTemplate, FALSE,
                                                   "context failed")}]
    /\ UNCHANGED <<svc, calls, work>>

\* the preview rendered by way of sendToRecipient: the message is delivered
previewRenderSettled_delivers ==
    /\ preview.pc = "render"
    /\ LET message == createMessageForUser(getPreviewUser, preview.messageTemplate)
       IN  preview' = [preview EXCEPT !.pc = "idle",
             !.transportLog = IF message.ok THEN @ + 1 ELSE @,
             !.results = @ \cup {PreviewResult(preview.messageTemplate,
                                               message.ok, message.text)}]
    /\ UNCHANGED <<svc, calls, work>>

\* the template resolver answered: previewMessage returns the message
previewRenderSettled ==
    /\ preview.pc = "render"
    /\ LET message == createMessageForUser(getPreviewUser, preview.messageTemplate)
       IN  preview' = [preview EXCEPT !.pc = "idle",
             !.results = @ \cup {PreviewResult(preview.messageTemplate,
                                               message.ok, message.text)}]
    /\ UNCHANGED <<svc, calls, work>>

(***************************************************************************)
(* The specification.                                                      *)
(***************************************************************************)
\* what the budget still allows a send call to name
Affordable == IF work = 0 THEN {} ELSE SeqsUpTo(GroupNames, work - 1)

Next ==
    \/ \E args \in BulkMessageServiceArgs : Construct(args)
    \/ \E c \in Calls, groups \in Affordable, t \in Templates : send(c, groups, t)
    \/ \E c \in Calls, i \in 1..MaxWork, ok \in BOOLEAN : addRecipientsFromGroup(c, i, ok)
    \/ \E c \in Calls : sendToRecipients(c)
    \/ \E c \in Calls : startJob(c)
    \/ \E c \in Calls, i \in 1..MaxWork, ok \in BOOLEAN : contextSettled(c, i, ok)
    \/ \E c \in Calls, i \in 1..MaxWork : renderSettled(c, i)
    \/ \E c \in Calls, i \in 1..MaxWork, ok \in BOOLEAN : transportSettled(c, i, ok)
    \/ \E c \in Calls : sendReturn(c)
    \/ \E t \in Templates : previewMessage(t)
    \/ \E ok \in BOOLEAN : previewContextSettled(ok)
    \/ previewRenderSettled

Spec == Init /\ [][Next]_vars

(***************************************************************************)
(* Vocabulary of the properties.                                           *)
(***************************************************************************)
\* how many entries of the sequence s satisfy P
Count(s, P(_)) == Cardinality({i \in DOMAIN s : P(s[i])})

IsGroupError(e) == "recipientGroup" \in DOMAIN e

\* the positions of the call's groups whose resolution was rejected / fulfilled
Rejected(call) == {i \in DOMAIN call.tasks : call.tasks[i] = "rejected"}

Fulfilled(call) == {i \in DOMAIN call.tasks : call.tasks[i] = "fulfilled"}

\* the _ids the resolver returned to the call so far
ResolvedIds(call) ==
    UNION {{u._id : u \in Range(resolve(call.recipientGroups[i]))} : i \in Fulfilled(call)}

\* how often the id occurs in what the resolver returned to the call
Occurrences(call, id) ==
    LET n[i \in 0..Len(call.tasks)] ==
          IF i = 0 THEN 0
          ELSE n[i - 1] + (IF i \in Fulfilled(call)
                           THEN Count(resolve(call.recipientGroups[i]), LAMBDA u : u._id = id)
                           ELSE 0)
    IN  n[Len(call.tasks)]

\* entries of the report about the user / transport calls for the user
RecipientEntries(report, id) == Count(report.recipients, LAMBDA e : e.user = id)

ErrorEntries(report, id) == Count(report.errors, LAMBDA e : e.user = id)

TransportCalls(call, id) ==
    LET B == call.transportLog
        S == {e \in BagToSet(B) : e.to = id}
        RECURSIVE Sum(_)
        Sum(T) == IF T = {} THEN 0
                  ELSE LET e == CHOOSE x \in T : TRUE IN CopiesIn(e, B) + Sum(T \ {e})
    IN  Sum(S)

UserIds == {u._id : u \in Users}

(***************************************************************************)
(* C1: if some requested group fails canResolve, send fails with an error  *)
(* that lists exactly the invalid names (in the order given), and nothing  *)
(* else happens: no resolve call, no context, rendering or transport call, *)
(* no report.                                                              *)
(***************************************************************************)
C1_InvalidGroupsFailFast ==
    \A c \in Calls :
      LET call    == calls[c]
          invalid == SelectSeq(call.recipientGroups, LAMBDA g : ~canResolve(g))
      IN  (call.pc # "idle" /\ invalid # <<>>) =>
            /\ call.pc = "threw"
            /\ call.error = "Invalid recipients: " \o JoinQuoted(invalid)
            /\ call.resolveLog = <<>>
            /\ call.tasks = <<>>
            /\ call.contextLog = EmptyBag
            /\ call.renderLog = EmptyBag
            /\ call.transportLog = EmptyBag
            /\ call.jobs = <<>>
            /\ call.report = NoReport
            /\ call.returned = NoReport

\* a call naming a valid group between two invalid ones has failed
C1_Witness ==
    \E c \in Calls :
      /\ calls[c].pc = "threw"
      /\ calls[c].recipientGroups = <<"bogus", "all", "nope">>
      /\ calls[c].error = "Invalid recipients: 'bogus', 'nope'"

(***************************************************************************)
(* C2: de-duplication.  However often the groups of one call return a      *)
(* user (two groups, one group twice, a group listed twice) and in         *)
(* whatever order the resolutions settle, the user is queued once, the     *)
(* handler runs once for them, the transport is called at most once for    *)
(* them - exactly once unless their context or rendering failed - and the  *)
(* returned report holds exactly one entry for them, counted once.         *)
(***************************************************************************)
C2_Deduplication ==
    \A c \in Calls : \A id \in UserIds :
      LET call == calls[c]
      IN  call.pc \notin {"idle", "threw"} =>
            /\ Count(call.allRecipients, LAMBDA u : u._id = id) <= 1
            /\ BagCardinality(call.contextLog) <= Cardinality(ResolvedIds(call))
            /\ CopiesIn(id, call.contextLog) <= 1
            /\ TransportCalls(call, id) <= 1
            /\ RecipientEntries(call.report, id) + ErrorEntries(call.report, id) <= 1
            /\ (call.pc = "returned" /\ id \in ResolvedIds(call)) =>
                 /\ CopiesIn(id, call.contextLog) = 1
                 /\ RecipientEntries(call.returned, id) + ErrorEntries(call.returned, id) = 1
                 /\ RecipientEntries(call.returned, id) = 1 => TransportCalls(call, id) = 1
                 /\ CopiesIn(id, call.renderLog) = 1
                      /\ createMessageForUser(CHOOSE u \in Users : u._id = id,
                                              call.messageTemplate).ok
                      => TransportCalls(call, id) = 1
                 /\ call.returned.numRecipients = Len(call.returned.recipients)
                 /\ call.returned.numFailed = Len(call.returned.errors)

\* a call has returned after the resolver gave it the same user three times
\* and the user was delivered to
C2_Witness ==
    \E c \in Calls :
      /\ calls[c].pc = "returned"
      /\ Occurrences(calls[c], "2") >= 3
      /\ RecipientEntries(calls[c].returned, "2") = 1

(***************************************************************************)
(* C2, as first stated: every user the resolver returned more than once is *)
(* passed to the transport exactly once.  It fails for a user whose        *)
(* context creation or rendering failed: the transport is then not called  *)
(* for them at all.                                                        *)
(***************************************************************************)
C2_TransportExactlyOnce ==
    \A c \in Calls : \A id \in UserIds :
      (calls[c].pc = "returned" /\ Occurrences(calls[c], id) >= 2) =>
        /\ TransportCalls(calls[c], id) = 1
        /\ RecipientEntries(calls[c].returned, id)
             + ErrorEntries(calls[c].returned, id) = 1

(***************************************************************************)
(* C3: in a returned report numRecipients + numFailed is the number of     *)
(* distinct recipients attempted plus the number of failed group           *)
(* resolutions; every attempted recipient has exactly one entry, in        *)
(* recipients or in errors and never in both; every failed resolution has  *)
(* exactly one errors entry, naming its group.                             *)
(***************************************************************************)
C3_ReportAccounting ==
    \A c \in Calls :
      LET call   == calls[c]
          report == call.returned
      IN  call.pc = "returned" =>
            /\ report.numRecipients + report.numFailed
                 = Cardinality(ResolvedIds(call)) + Cardinality(Rejected(call))
            /\ report.numRecipients = Len(report.recipients)
            /\ report.numFailed = Len(report.errors)
            /\ \A id \in ResolvedIds(call) :
                 RecipientEntries(report, id) + ErrorEntries(report, id) = 1
            /\ \A id \in UserIds \ ResolvedIds(call) :
                 RecipientEntries(report, id) + ErrorEntries(report, id) = 0
            /\ \A g \in GroupNames :
                 Count(report.errors, LAMBDA e : IsGroupError(e) /\ e.recipientGroup = g)
                   = Cardinality({i \in Rejected(call) : call.recipientGroups[i] = g})

\* a report was returned that holds a delivery, a failed recipient and a
\* failed group
C3_Witness ==
    \E c \in Calls :
      /\ calls[c].pc = "returned"
      /\ Rejected(calls[c]) # {}
      /\ calls[c].returned.numRecipients = 1
      /\ calls[c].returned.numFailed = 2

(***************************************************************************)
(* C4: per-recipient isolation.  When the context factory, the template    *)
(* resolver or the transport failed for exactly one of the N distinct      *)
(* resolved recipients, the other N-1 were delivered to, the report counts *)
(* N-1 recipients and 1 failure plus one failure per rejected group        *)
(* resolution, and the failing recipient has one errors entry              *)
(* {message, user, name} and no recipients entry.                          *)
(***************************************************************************)
C4_RecipientFailureIsolated ==
    \A c \in Calls :
      LET call   == calls[c]
          report == call.returned
          N      == Cardinality(ResolvedIds(call))
          failed == {i \in DOMAIN call.jobs : call.jobs[i] = "failed"}
      IN  (call.pc = "returned" /\ Cardinality(failed) = 1) =>
            /\ report.numRecipients = N - 1
            /\ report.numFailed = 1 + Cardinality(Rejected(call))
            /\ Rejected(call) = {} => report.numFailed = 1
            /\ Len(call.queue) = N
            /\ \A i \in DOMAIN call.jobs :
                 LET u == call.queue[i]
                 IN  IF i \in failed
                     THEN /\ RecipientEntries(report, u._id) = 0
                          /\ ErrorEntries(report, u._id) = 1
                          /\ \E k \in DOMAIN report.errors :
                               /\ DOMAIN report.errors[k] = {"message", "user", "name"}
                               /\ report.errors[k].user = u._id
                               /\ report.errors[k].name = u.name
                               /\ report.errors[k].message \in
                                    {"context failed", "Unresolved placeholder",
                                     "transport failed"}
                     ELSE /\ TransportCalls(call, u._id) = 1
                          /\ RecipientEntries(report, u._id) = 1
                          /\ ErrorEntries(report, u._id) = 0

\* two recipients, the first one's transport failed, the second was
\* delivered to afterwards
C4_Witness ==
    \E c \in Calls :
      /\ calls[c].pc = "returned"
      /\ Rejected(calls[c]) = {}
      /\ calls[c].jobs = <<"failed", "sent">>
      /\ TransportCalls(calls[c], calls[c].queue[1]._id) = 1
      /\ calls[c].returned.errors # <<>>
      /\ calls[c].returned.recipients # <<>>

(***************************************************************************)
(* C4, as first stated: numFailed = 1 whenever exactly one recipient       *)
(* failed.  It fails when a group of the same call was rejected: numFailed *)
(* counts that failure too.                                                *)
(***************************************************************************)
C4_OneFailureCounted ==
    \A c \in Calls :
      LET call == calls[c]
      IN  (call.pc = "returned"
             /\ Cardinality({i \in DOMAIN call.jobs : call.jobs[i] = "failed"}) = 1) =>
            /\ call.returned.numRecipients = Cardinality(ResolvedIds(call)) - 1
            /\ call.returned.numFailed = 1

(***************************************************************************)
(* C5: group-level isolation.  A rejected resolution of a validated group  *)
(* adds exactly one errors entry (recipientGroup the group, user and name  *)
(* null) and one to numFailed; the call does not fail; the users of the    *)
(* groups that did resolve are still sent to.                              *)
(***************************************************************************)
C5_GroupFailureIsolated ==
    \A c \in Calls :
      LET call == calls[c]
      IN  Rejected(call) # {} =>
            /\ call.pc \in {"resolving", "sending", "returned"}
            /\ call.error = ""
            /\ Count(call.report.errors, IsGroupError) = Cardinality(Rejected(call))
            /\ call.report.numFailed =
                 Cardinality(Rejected(call))
                   + Cardinality({i \in DOMAIN call.jobs : call.jobs[i] = "failed"})
            /\ \A k \in DOMAIN call.report.errors :
                 LET e == call.report.errors[k]
                 IN  IsGroupError(e) =>
                       /\ e.user = Null /\ e.name = Null
                       /\ e.message = "resolve failed"
                       /\ \E i \in Rejected(call) : call.recipientGroups[i] = e.recipientGroup
            /\ call.pc \in {"sending", "returned"} =>
                 {call.queue[i]._id : i \in DOMAIN call.queue} = ResolvedIds(call)
            /\ call.pc = "returned" =>
                 \A id \in ResolvedIds(call) :
                   /\ CopiesIn(id, call.contextLog) = 1
                   /\ RecipientEntries(call.returned, id) + ErrorEntries(call.returned, id) = 1

\* one group was rejected, another resolved, and both its users were
\* delivered to
C5_Witness ==
    \E c \in Calls :
      /\ calls[c].pc = "returned"
      /\ Cardinality(Rejected(calls[c])) = 1
      /\ Fulfilled(calls[c]) # {}
      /\ calls[c].returned.numRecipients = 2
      /\ calls[c].returned.numFailed = 1

(***************************************************************************)
(* C6: once every requested group has passed validation, send never fails: *)
(* whatever the resolver, the context factory, the template resolver and   *)
(* the transport answer, the call keeps a step to take until it returns,   *)
(* and every failure is an entry of the report's errors.                   *)
(***************************************************************************)
CallStep(c) ==
    \/ \E i \in 1..MaxWork, ok \in BOOLEAN : addRecipientsFromGroup(c, i, ok)
    \/ sendToRecipients(c)
    \/ startJob(c)
    \/ \E i \in 1..MaxWork, ok \in BOOLEAN : contextSettled(c, i, ok)
    \/ \E i \in 1..MaxWork : renderSettled(c, i)
    \/ \E i \in 1..MaxWork, ok \in BOOLEAN : transportSettled(c, i, ok)
    \/ sendReturn(c)

C6_NoExceptionAfterValidation ==
    \A c \in Calls :
      LET call == calls[c]
          failedJobs == {i \in DOMAIN call.jobs : call.jobs[i] = "failed"}
      IN  (call.pc # "idle" /\ \A g \in Range(call.recipientGroups) : canResolve(g)) =>
            /\ call.pc \in {"resolving", "sending", "returned"}
            /\ call.error = ""
            /\ call.pc # "returned" => ENABLED CallStep(c)
            /\ Len(call.report.errors) = Cardinality(Rejected(call)) + Cardinality(failedJobs)
            /\ \A i \in failedJobs : ErrorEntries(call.report, call.queue[i]._id) = 1
            /\ call.pc = "returned" => call.returned = call.report

\* a call returned its report although a resolution, a context creation and
\* a transport call had failed
C6_Witness ==
    \E c \in Calls :
      /\ calls[c].pc = "returned"
      /\ Rejected(calls[c]) # {}
      /\ \E k \in DOMAIN calls[c].returned.errors :
           calls[c].returned.errors[k].message = "context failed"
      /\ \E k \in DOMAIN calls[c].returned.errors :
           calls[c].returned.errors[k].message = "transport failed"

(***************************************************************************)
(* C7: send returns only when every group resolution and every             *)
(* per-recipient send of the call has settled, and the report the caller   *)
(* holds is not changed afterwards.                                        *)
(***************************************************************************)
C7_NoEarlyReturn ==
    \A c \in Calls :
      LET call == calls[c]
      IN  call.pc = "returned" =>
            /\ Len(call.tasks) = Len(call.recipientGroups)
            /\ \A i \in DOMAIN call.tasks : call.tasks[i] \in {"fulfilled", "rejected"}
            /\ Len(call.jobs) = Len(call.allRecipients)
            /\ \A i \in DOMAIN call.jobs : call.jobs[i] \in {"sent", "failed"}
            /\ call.report = call.returned
            /\ Len(call.report.recipients) + Len(call.report.errors)
                 = Len(call.tasks) - Cardinality(Fulfilled(call)) + Len(call.jobs)

\* a call with two groups and two recipients has returned
C7_Witness ==
    \E c \in Calls :
      /\ calls[c].pc = "returned"
      /\ Len(calls[c].tasks) = 2
      /\ Len(calls[c].jobs) = 2

(***************************************************************************)
(* C8: previewMessage has no side effect: no step of it touches a send     *)
(* call (its report included) or the service, it never calls the transport *)
(* or the recipient resolver, and two previews of one template that return *)
(* return the same string.                                                 *)
(***************************************************************************)
PreviewDeterministic ==
    \A r1, r2 \in preview.results :
      (r1.ok /\ r2.ok /\ r1.messageTemplate = r2.messageTemplate) => r1.text = r2.text

C8_PreviewSideEffectFree ==
    /\ [][preview' # preview => (calls' = calls /\ svc' = svc)]_vars
    /\ [](preview.transportLog = 0 /\ preview.resolveLog = 0 /\ PreviewDeterministic)

\* one template was previewed twice, around a send call that delivered a
\* message, and one and the same string came back
C8_Witness ==
    /\ preview.pc = "idle"
    /\ preview.renderLog = 2
    /\ preview.results = {PreviewResult(TplName, TRUE, "Hi Jane")}
    /\ \E c \in Calls : calls[c].pc = "returned" /\ calls[c].returned.numRecipients = 1

(***************************************************************************)
(* C9: the constructor fails when neither a recipient resolver nor a user  *)
(* service is given, and when neither a transport nor an SMS service is    *)
(* given; otherwise it succeeds.  So send and previewMessage only ever run *)
(* on a service that has its resolver and its transport.                   *)
(***************************************************************************)
C9_ConstructionValidated ==
    /\ [][\A args \in BulkMessageServiceArgs :
            Construct(args) =>
              svc'.state = IF \/ (~args.recipientResolver /\ ~args.users)
                              \/ (~args.transport /\ ~args.smsService)
                           THEN "configError" ELSE "constructed"]_vars
    /\ []((\E c \in Calls : calls[c].pc # "idle") \/ preview.contextLog > 0
            => svc.state = "constructed" /\ svc.recipientResolver /\ svc.transport)
    /\ [](svc.state = "configError" => ~svc.recipientResolver \/ ~svc.transport)

\* the constructor was given a resolver but no way to deliver
C9_Witness ==
    /\ svc.state = "configError"
    /\ svc.error = "Bulk message args must provide either transport or smsProvider"

(***************************************************************************)
(* C10: send with no groups returns the empty report (both counts 0, both  *)
(* lists empty) and calls neither resolve nor the transport.               *)
(***************************************************************************)
C10_EmptyGroupList ==
    \A c \in Calls :
      LET call  == calls[c]
          empty == [errors |-> <<>>, numFailed |-> 0, numRecipients |-> 0,
                    recipients |-> <<>>]
      IN  (call.pc # "idle" /\ call.recipientGroups = <<>>) =>
            /\ call.pc \in {"resolving", "sending", "returned"}
            /\ call.report = empty
            /\ call.resolveLog = <<>>
            /\ call.contextLog = EmptyBag
            /\ call.transportLog = EmptyBag
            /\ call.pc # "returned" => ENABLED (sendToRecipients(c) \/ sendReturn(c))
            /\ call.pc = "returned" => call.returned = empty

\* a call with no groups has returned
C10_Witness ==
    \E c \in Calls :
      /\ calls[c].pc = "returned"
      /\ calls[c].recipientGroups = <<>>
      /\ calls[c].returned.numRecipients = 0

(***************************************************************************)
(* C11: the worked example.  A call for the one group "all", which         *)
(* resolves to <<User1, User2>>, with the template "Hi {{name}}" and no    *)
(* failing collaborator hands "Hi A" and "Hi B" to the transport and       *)
(* returns numRecipients = 2, numFailed = 0, errors = <<>> and the two     *)
(* entries {user "1", name "A"} and {user "2", name "B"} in recipients, in *)
(* the order in which the two sends completed.                             *)
(***************************************************************************)
Entry(u) == [user |-> u._id, name |-> u.name]

\* the example's call, returned with every collaborator call a success
ExampleCall(call) ==
    /\ call.pc = "returned"
    /\ call.recipientGroups = <<"all">>
    /\ call.messageTemplate = TplName
    /\ call.tasks = <<"fulfilled">>
    /\ \A i \in DOMAIN call.jobs : call.jobs[i] = "sent"

C11_ExampleReport ==
    [](\A c \in Calls :
      LET call == calls[c]
      IN  ExampleCall(call) =>
            /\ call.returned.numRecipients = 2
            /\ call.returned.numFailed = 0
            /\ call.returned.errors = <<>>
            /\ call.returned.recipients \in {<<Entry(User1), Entry(User2)>>,
                                             <<Entry(User2), Entry(User1)>>}
            /\ call.transportLog = SetToBag({[to |-> "1", message |-> "Hi A"],
                                             [to |-> "2", message |-> "Hi B"]}))

\* the example's call has returned the report the example shows
C11_Witness ==
    \E c \in Calls :
      /\ ExampleCall(calls[c])
      /\ calls[c].returned = [errors |-> <<>>, numFailed |-> 0, numRecipients |-> 2,
                              recipients |-> <<Entry(User1), Entry(User2)>>]

(***************************************************************************)
(* C11, as first stated: the example's recipients are in exactly the order *)
(* in which the group resolved them.                                       *)
(***************************************************************************)
C11_InputOrder ==
    \A c \in Calls :
      ExampleCall(calls[c]) =>
        calls[c].returned.recipients = <<Entry(User1), Entry(User2)>>

(***************************************************************************)
(* C12: first-seen order.  When a group's resolution is fulfilled, the     *)
(* users it returned that the call has not seen yet are appended to the    *)
(* recipient list, each at the position of their first occurrence in the   *)
(* group's answer; nothing else changes the list.  So the list is in       *)
(* first-seen order when the groups are taken in the order in which their  *)
(* resolutions are fulfilled, and a later duplicate never moves or         *)
(* replaces an earlier entry.                                              *)
(***************************************************************************)
\* the sequence without the later occurrences of an _id
FirstSeen(s) ==
    LET f[k \in 0..Len(s)] ==
          IF k = 0 THEN <<>>
          ELSE IF \E j \in 1..(k - 1) : s[j]._id = s[k]._id THEN f[k - 1]
          ELSE Append(f[k - 1], s[k])
    IN  f[Len(s)]

\* the positions of the group tasks that the step from a to b fulfils
FulfilledBy(a, b) ==
    {i \in DOMAIN a.tasks : a.tasks[i] = "pending" /\ b.tasks[i] = "fulfilled"}

C12_FirstSeenOrder ==
    [][\A c \in Calls :
         LET a == calls[c]
             b == calls'[c]
         IN  IF a.pc = "idle" THEN b.allRecipients = <<>>
             ELSE IF FulfilledBy(a, b) = {} THEN b.allRecipients = a.allRecipients
             ELSE \E i \in FulfilledBy(a, b) :
                    b.allRecipients =
                      FirstSeen(a.allRecipients \o resolve(a.recipientGroups[i]))]_vars

\* the groups were requested as <<"team:a", "all">>, "all" was fulfilled
\* first, and User1 is ahead of User2, whom "team:a" names first
C12_Witness ==
    \E c \in Calls :
      /\ calls[c].recipientGroups = <<"team:a", "all">>
      /\ calls[c].tasks = <<"fulfilled", "fulfilled">>
      /\ calls[c].allRecipients = <<User1, User2>>

(***************************************************************************)
(* C12, as first stated: once the resolutions have settled, the recipient  *)
(* list is in first-seen order with the groups taken in the order in which *)
(* they were requested.                                                    *)
(***************************************************************************)
\* what the fulfilled groups returned, in the order the groups were given
RECURSIVE ResolvedInOrderGiven(_, _)
ResolvedInOrderGiven(call, i) ==
    IF i > Len(call.tasks) THEN <<>>
    ELSE (IF call.tasks[i] = "fulfilled" THEN resolve(call.recipientGroups[i]) ELSE <<>>)
           \o ResolvedInOrderGiven(call, i + 1)

C12_OrderGiven ==
    \A c \in Calls :
      LET call == calls[c]
      IN  (call.pc \in {"resolving", "sending", "returned"} /\ allSettled(call.tasks)) =>
            call.allRecipients = FirstSeen(ResolvedInOrderGiven(call, 1))

(***************************************************************************)
(* C13: completion order.  A step that settles a task appends the task's   *)
(* entry at the end of the array it lands in - a rejected group and a      *)
(* failed send in errors, a completed send in recipients - and leaves the  *)
(* entries already there where they are; no other step touches the         *)
(* arrays.  So the entry of a task that settles earlier precedes the entry *)
(* of one that settles later, whatever the order of the input.             *)
(***************************************************************************)
\* the job of the call that the step from a to b ends in the given state
EndedBy(a, b, state) ==
    {i \in DOMAIN a.jobs : a.jobs[i] \notin {"sent", "failed"} /\ b.jobs[i] = state}

RejectedBy(a, b) ==
    {i \in DOMAIN a.tasks : a.tasks[i] = "pending" /\ b.tasks[i] = "rejected"}

C13_CompletionOrder ==
    [][\A c \in Calls :
         LET a == calls[c]
             b == calls'[c]
         IN  a.pc \notin {"idle", "threw"} =>
               IF EndedBy(a, b, "sent") # {}
               THEN /\ \E i \in EndedBy(a, b, "sent") :
                         b.report.recipients = Append(a.report.recipients, Entry(a.queue[i]))
                    /\ b.report.errors = a.report.errors
               ELSE IF EndedBy(a, b, "failed") # {}
               THEN /\ \E i \in EndedBy(a, b, "failed") :
                         /\ Len(b.report.errors) = Len(a.report.errors) + 1
                         /\ SubSeq(b.report.errors, 1, Len(a.report.errors)) = a.report.errors
                         /\ b.report.errors[Len(b.report.errors)].user = a.queue[i]._id
                    /\ b.report.recipients = a.report.recipients
               ELSE IF RejectedBy(a, b) # {}
               THEN /\ \E i \in RejectedBy(a, b) :
                         /\ Len(b.report.errors) = Len(a.report.errors) + 1
                         /\ SubSeq(b.report.errors, 1, Len(a.report.errors)) = a.report.errors
                         /\ b.report.errors[Len(b.report.errors)].user = Null
                         /\ b.report.errors[Len(b.report.errors)].recipientGroup
                              = a.recipientGroups[i]
                    /\ b.report.recipients = a.report.recipients
               ELSE b.report = a.report]_vars

\* the example's two sends completed in the reverse of the input order
C13_Witness ==
    \E c \in Calls :
      /\ calls[c].queue = <<User1, User2>>
      /\ calls[c].pc = "returned"
      /\ calls[c].returned.recipients = <<Entry(User2), Entry(User1)>>

(***************************************************************************)
(* C14: calls of one instance do not interfere.  Whatever other calls are  *)
(* in progress, a call's recipient list and id set hold exactly the users  *)
(* its own resolutions returned, its report holds entries only for those   *)
(* users and for its own rejected groups, it calls the transport at most   *)
(* once per user, and a user delivered to by two calls was passed to the   *)
(* transport once by each of them, twice in total.                         *)
(***************************************************************************)
C14_CallsIndependent ==
    [](\A c \in Calls :
      LET call == calls[c]
      IN  call.pc \notin {"idle", "threw"} =>
            /\ {u._id : u \in Range(call.allRecipients)} = ResolvedIds(call)
            /\ call.recipientIds = ResolvedIds(call)
            /\ \A e \in Range(call.report.recipients) : e.user \in ResolvedIds(call)
            /\ \A e \in Range(call.report.errors) :
                 IF IsGroupError(e)
                 THEN \E i \in Rejected(call) : call.recipientGroups[i] = e.recipientGroup
                 ELSE e.user \in ResolvedIds(call)
            /\ \A id \in UserIds : TransportCalls(call, id) <= 1
            /\ \A d \in Calls \ {c} : \A id \in UserIds :
                 ( /\ call.pc = "returned"
                   /\ calls[d].pc = "returned"
                   /\ RecipientEntries(call.returned, id) = 1
                   /\ RecipientEntries(calls[d].returned, id) = 1 ) =>
                 TransportCalls(call, id) + TransportCalls(calls[d], id) = 2)

\* two calls overlap, each waiting for the transport's answer about User2,
\* and only the second of them asked for User1
C14_Witness ==
    \E c, d \in Calls :
      /\ c # d
      /\ calls[c].pc = "sending" /\ calls[d].pc = "sending"
      /\ calls[c].queue = <<User2>> /\ calls[c].jobs = <<"transport">>
      /\ calls[d].queue = <<User1, User2>> /\ calls[d].jobs[2] = "transport"
      /\ TransportCalls(calls[c], "2") = 1
      /\ TransportCalls(calls[d], "2") = 1

(***************************************************************************)
(* C15: a pending transport call does not block the siblings.  While the   *)
(* send to one recipient waits for the transport, the next queued          *)
(* recipient of the call can be started if nothing else is in flight, and  *)
(* every other send in flight can take its next step; a sibling waiting    *)
(* for the transport too can complete and have its entry added to          *)
(* recipients.                                                             *)
(***************************************************************************)
C15_SiblingsNotBlocked ==
    [](\A c \in Calls :
      LET call == calls[c]
      IN  \A i \in DOMAIN call.jobs :
            (call.pc = "sending" /\ call.jobs[i] = "transport") =>
              /\ (Queued(call.jobs) # {} /\ InFlight(call.jobs) = {i}) =>
                   ENABLED startJob(c)
              /\ \A j \in DOMAIN call.jobs \ {i} :
                   /\ call.jobs[j] = "context" => ENABLED contextSettled(c, j, TRUE)
                   /\ call.jobs[j] = "render" => ENABLED renderSettled(c, j)
                   /\ call.jobs[j] = "transport" =>
                        ENABLED ( /\ transportSettled(c, j, TRUE)
                                  /\ calls'[c].report.recipients =
                                       Append(call.report.recipients, Entry(call.queue[j])) ))

\* the send to User1 still waits for the transport; the send to User2 was
\* started after it and is in the report
C15_Witness ==
    \E c \in Calls :
      /\ calls[c].pc = "sending"
      /\ calls[c].queue = <<User1, User2>>
      /\ calls[c].jobs = <<"transport", "sent">>
      /\ calls[c].report.recipients = <<Entry(User2)>>

(***************************************************************************)
(* C16: in every state of a call, numRecipients is the length of           *)
(* recipients and numFailed is the length of errors, and no step removes   *)
(* or changes an entry or lowers a counter.                                *)
(***************************************************************************)
IsPrefix(s, t) == Len(s) <= Len(t) /\ SubSeq(t, 1, Len(s)) = s

C16_CountersMatchLists ==
    /\ [](\A c \in Calls :
            calls[c].report # NoReport =>
              /\ calls[c].report.numRecipients = Len(calls[c].report.recipients)
              /\ calls[c].report.numFailed = Len(calls[c].report.errors))
    /\ [][\A c \in Calls :
            calls[c].report # NoReport =>
              /\ calls'[c].report # NoReport
              /\ calls'[c].report.numRecipients >= calls[c].report.numRecipients
              /\ calls'[c].report.numFailed >= calls[c].report.numFailed
              /\ IsPrefix(calls[c].report.recipients, calls'[c].report.recipients)
              /\ IsPrefix(calls[c].report.errors, calls'[c].report.errors)]_vars

\* in the middle of the send phase: one send done, one failed, one pending
C16_Witness ==
    \E c \in Calls :
      /\ calls[c].pc = "sending"
      /\ InFlight(calls[c].jobs) # {}
      /\ calls[c].report.numRecipients = 1 /\ Len(calls[c].report.recipients) = 1
      /\ calls[c].report.numFailed = 1 /\ Len(calls[c].report.errors) = 1

(***************************************************************************)
(* C17: the phases of a call.  The resolver is called once per requested   *)
(* group when the call starts and never again; while a resolution is       *)
(* pending no recipient is queued and the context factory, the template    *)
(* resolver and the transport have not been called.                        *)
(***************************************************************************)
C17_PhaseOrdering ==
    [](\A c \in Calls :
      LET call == calls[c]
      IN  call.pc \notin {"idle", "threw"} =>
            /\ call.resolveLog = call.recipientGroups
            /\ Len(call.tasks) = Len(call.resolveLog)
            /\ ~allSettled(call.tasks) =>
                 /\ call.pc = "resolving"
                 /\ call.jobs = <<>>
                 /\ call.contextLog = EmptyBag
                 /\ call.renderLog = EmptyBag
                 /\ call.transportLog = EmptyBag
            /\ call.contextLog # EmptyBag =>
                 /\ call.pc \in {"sending", "returned"}
                 /\ \A i \in DOMAIN call.tasks : call.tasks[i] \in {"fulfilled", "rejected"})

\* one resolution has delivered recipients, the other is pending, and no
\* collaborator of the send phase has been called
C17_Witness ==
    \E c \in Calls :
      /\ calls[c].pc = "resolving"
      /\ calls[c].tasks = <<"fulfilled", "pending">>
      /\ calls[c].allRecipients # <<>>
      /\ calls[c].contextLog = EmptyBag

(***************************************************************************)
(* C18: the steps of one recipient.  The transport is called for a         *)
(* recipient only after their context was created and their message        *)
(* rendered; if the context factory or the template resolver fails for     *)
(* them, the transport is not called for them and they have an entry in    *)
(* errors; they have an entry in recipients only once the transport has    *)
(* answered their send with success.                                       *)
(***************************************************************************)
C18_RecipientSteps ==
    [](\A c \in Calls :
      LET call == calls[c]
      IN  \A i \in DOMAIN call.jobs :
            LET id       == call.queue[i]._id
                st       == call.jobs[i]
                context  == CopiesIn(id, call.contextLog) = 1
                rendered == CopiesIn(id, call.renderLog) = 1
                message  == createMessageForUser(call.queue[i], call.messageTemplate)
            IN  /\ TransportCalls(call, id) >= 1 =>
                     /\ context /\ rendered /\ message.ok
                     /\ st \in {"transport", "sent", "failed"}
                     /\ [to |-> id, message |-> message.text] \in BagToSet(call.transportLog)
                /\ st \in {"queued", "context", "render", "transport"} =>
                     /\ RecipientEntries(call.report, id) = 0
                     /\ ErrorEntries(call.report, id) = 0
                /\ st \in {"queued", "context", "render"} => TransportCalls(call, id) = 0
                /\ (st = "failed" /\ (~rendered \/ ~message.ok)) =>
                     /\ TransportCalls(call, id) = 0
                     /\ ErrorEntries(call.report, id) = 1
                     /\ RecipientEntries(call.report, id) = 0
                /\ RecipientEntries(call.report, id) >= 1 =>
                     /\ st = "sent"
                     /\ TransportCalls(call, id) = 1)

\* of one call, User1's context failed and User2's rendering failed: both
\* are in errors and the transport was not called
C18_Witness ==
    \E c \in Calls :
      /\ calls[c].queue = <<User1, User2>>
      /\ calls[c].jobs = <<"failed", "failed">>
      /\ CopiesIn("1", calls[c].renderLog) = 0
      /\ CopiesIn("2", calls[c].renderLog) = 1
      /\ calls[c].transportLog = EmptyBag
      /\ calls[c].report.numFailed = 2

(***************************************************************************)
(* C19: termination.  The event loop resumes every continuation whose      *)
(* promise has settled, and the claim supposes that every collaborator     *)
(* call settles: a call that can take a step eventually takes one.  Under  *)
(* this fairness every call that passed validation returns its report.     *)
(***************************************************************************)
FairSpec == Spec /\ \A c \in Calls : WF_vars(CallStep(c))

C19_Termination ==
    \A c \in Calls :
      (calls[c].pc \in {"resolving", "sending"}) ~>
        (calls[c].pc = "returned" /\ calls[c].returned = calls[c].report)

\* a call with a rejected group and a failed send has returned
C19_Witness ==
    \E c \in Calls :
      /\ calls[c].pc = "returned"
      /\ Rejected(calls[c]) # {}
      /\ \E i \in DOMAIN calls[c].jobs : calls[c].jobs[i] = "failed"
      /\ calls[c].returned.numFailed = 2

====
